---- MODULE Spec2Model ----
(***************************************************************************)
(* The MCP test server of src/test-server/mcp_server.py: one HTTP POST     *)
(* exchange handled by MCPRequestHandler.do_POST, the three method         *)
(* handlers of MCPServer and the seven tools of handle_tools_call,         *)
(* including the expression evaluator of the calculate tool.               *)
(*                                                                         *)
(* Values.  Every Python / JSON value is one record shape, PyVal:          *)
(*   t  : "absent" (key not in the dict), "null", "bool", "num", "str",    *)
(*        "list", "dict"                                                   *)
(*   s  : the characters of a str, as a sequence of atoms                  *)
(*   b  : the value of a bool                                              *)
(*   k  : the kind of a num: "int", "float", and for results of the        *)
(*        evaluator also "irr" (a real float the model does not compute)   *)
(*        and "cplx" (a complex number)                                    *)
(*   hi, n, d : the number hi * BIG + n / d, where BIG is an integer       *)
(*        beyond the range of a double (10**400); floats have hi = 0.      *)
(* Floats are exact rationals: rounding is not modelled.                   *)
(***************************************************************************)
EXTENDS Integers, Sequences, FiniteSets, TLC

VARIABLES
    pc,        \* position of do_POST in the current exchange
    body,      \* the POST body of the current exchange
    response,  \* do_POST's local `response`
    wfile,     \* what do_POST has written to the client in this exchange
    caught,    \* the exception do_POST's `except Exception as e` has caught
    attempts,  \* how many times this exchange's request has been dispatched
    tools,     \* MCPServer.tools
    start_time, \* MCPServer.start_time
    callers,   \* the locals of each do_POST running against the one MCPServer
    main_pc,     \* watch_server.main: where the main thread is
    observer_pc, \* where the observer thread is, inside restart_server or not
    process,     \* ServerRestartHandler.process: None, or the child it refers to
    children,    \* the server child processes started so far, and their state
    stopped      \* observer.stop() has been called

\* watch_server.py runs in a process of its own.
watch_vars == <<main_pc, observer_pc, process, children, stopped>>

server_vars == <<pc, body, response, wfile, caught, attempts, tools, start_time, callers>>

vars == <<server_vars, watch_vars>>

\* ------------------------------------------------------------ bounds
\* Longest expression (in tokens) of the exhaustive family of calculate inputs.
MaxExprLen == 3

\* ------------------------------------------------------------ error codes
ParseError == -32700
MethodNotFound == -32601
InvalidParams == -32602
InternalError == -32603

\* ------------------------------------------------------------ values
PyVal(t, s, b, k, hi, n, d) ==
    [t |-> t, s |-> s, b |-> b, k |-> k, hi |-> hi, n |-> n, d |-> d]

JAbsent == PyVal("absent", <<>>, FALSE, "int", 0, 0, 1)
JNull == PyVal("null", <<>>, FALSE, "int", 0, 0, 1)
JBool(b) == PyVal("bool", <<>>, b, "int", 0, 0, 1)
JStr(s) == PyVal("str", s, FALSE, "int", 0, 0, 1)
JList == PyVal("list", <<>>, FALSE, "int", 0, 0, 1)
JDict == PyVal("dict", <<>>, FALSE, "int", 0, 0, 1)
JInt(n) == PyVal("num", <<>>, FALSE, "int", 0, n, 1)
JFloat(n, d) == PyVal("num", <<>>, FALSE, "float", 0, n, d)
\* The integer hi * 10**400 + n: a JSON integer literal of 401 digits.
JBigInt(hi, n) == PyVal("num", <<>>, FALSE, "int", hi, n, 1)
JIrr == PyVal("num", <<>>, FALSE, "irr", 0, 0, 1)
JCplx == PyVal("num", <<>>, FALSE, "cplx", 0, 0, 1)

Abs(x) == IF x < 0 THEN -x ELSE x

RECURSIVE Gcd(_, _)
Gcd(x, y) == IF y = 0 THEN x ELSE Gcd(y, x % y)

\* The rational n / d (d # 0) in lowest terms with a positive denominator.
Rat(k, n, d) ==
    LET g == Gcd(Abs(n), Abs(d))
        sgn == IF d < 0 THEN -1 ELSE 1
    IN PyVal("num", <<>>, FALSE, k, 0, sgn * (n \div g), Abs(d) \div g)

\* dict.get(key, default): the value, or the default when the key is absent.
DictGet(v, default) == IF v.t = "absent" THEN default ELSE v

\* str(v) as f-strings interpolate it, as a sequence of atoms.
Render(v) ==
    CASE v.t = "str" -> v.s
      [] v.t \in {"null", "absent"} -> <<"None">>
      [] v.t = "bool" -> IF v.b THEN <<"True">> ELSE <<"False">>
      [] v.t = "list" -> <<"[...]">>
      [] v.t = "dict" -> <<"{...}">>
      [] v.t = "num" /\ v.k = "int" /\ v.hi = 0 -> <<ToString(v.n)>>
      [] v.t = "num" /\ v.k = "int" /\ v.hi # 0 ->
            <<ToString(v.hi), "e400+", ToString(v.n)>>
      [] v.t = "num" /\ v.k = "float" /\ v.d = 1 -> <<ToString(v.n), ".0">>
      [] v.t = "num" /\ v.k = "float" /\ v.d # 1 ->
            <<ToString(v.n), "/", ToString(v.d)>>
      [] v.t = "num" /\ v.k = "irr" -> <<"<float>">>
      [] v.t = "num" /\ v.k = "cplx" -> <<"<complex>">>

\* type(v).__name__
TypeName(v) ==
    CASE v.t = "str" -> "str"
      [] v.t \in {"null", "absent"} -> "NoneType"
      [] v.t = "bool" -> "bool"
      [] v.t = "list" -> "list"
      [] v.t = "dict" -> "dict"
      [] v.t = "num" /\ v.k = "int" -> "int"
      [] v.t = "num" /\ v.k = "cplx" -> "complex"
      [] OTHER -> "float"

\* An f-string: always a str.
FStr(parts) == JStr(parts)

\* ------------------------------------------------------------ envelopes
Success(request_id, result) ==
    [jsonrpc |-> "2.0", id |-> request_id, result |-> result]

\* An error envelope that also carries a result member.
ErrorResponseWithResult(request_id, code, message) ==
    [jsonrpc |-> "2.0", id |-> request_id, result |-> JNull,
     error |-> [code |-> code, message |-> message]]

ErrorResponse(request_id, code, message) ==
    [jsonrpc |-> "2.0", id |-> request_id,
     error |-> [code |-> code, message |-> message]]

\* The tool result {"content": [{"type": "text", "text": text}]}.
TextContent(text) == [content |-> <<[type |-> "text", text |-> text]>>]

\* What a handler does: return an envelope, or raise.
Return(resp) == [raised |-> FALSE, exc |-> "", resp |-> resp]
Raise(exc) == [raised |-> TRUE, exc |-> exc, resp |-> ErrorResponse(JNull, 0, JStr(<<>>))]

\* ------------------------------------------------------------ arithmetic
\* What a Python operator does: return a value, or raise.
Ok(v) == [ok |-> TRUE, exc |-> "", v |-> v]
Err(exc) == [ok |-> FALSE, exc |-> exc, v |-> JNull]

IsNum(v) == v.t = "num"
IsStr(v) == v.t = "str"
IsExact(v) == v.t = "num" /\ v.k \in {"int", "float"}
IsZero(v) == IsExact(v) /\ v.hi = 0 /\ v.n = 0
\* int -> float conversion fails beyond the range of a double.
TooBigForFloat(v) == v.k = "int" /\ v.hi # 0

\* The kind of the result of + - * on two numbers.
JoinKind(x, y) ==
    CASE x.k = "cplx" \/ y.k = "cplx" -> "cplx"
      [] x.k = "irr" \/ y.k = "irr" -> "irr"
      [] x.k = "int" /\ y.k = "int" -> "int"
      [] OTHER -> "float"

Inexact(kind) == IF kind = "cplx" THEN JCplx ELSE JIrr

RECURSIVE IntPow(_, _)
IntPow(x, e) == IF e = 0 THEN 1 ELSE x * IntPow(x, e - 1)

RECURSIVE Repeat(_, _)
Repeat(s, n) == IF n <= 0 THEN <<>> ELSE s \o Repeat(s, n - 1)

\* floor(p / q), q # 0
FloorDiv(p, q) == IF q < 0 THEN (-p) \div (-q) ELSE p \div q

\* x + y with the signs of y's terms given by sgn (1: add, -1: subtract).
AddNumbers(x, y, sgn) ==
    LET kind == JoinKind(x, y)
    IN CASE kind = "int" -> Ok(JBigInt(x.hi + sgn * y.hi, x.n + sgn * y.n))
         [] TooBigForFloat(x) \/ TooBigForFloat(y) -> Err("OverflowError")
         [] kind = "float" -> Ok(Rat("float", x.n * y.d + sgn * y.n * x.d, x.d * y.d))
         [] OTHER -> Ok(Inexact(kind))

\* operator.add
OpAdd(x, y) ==
    CASE IsNum(x) /\ IsNum(y) -> AddNumbers(x, y, 1)
      [] IsStr(x) /\ IsStr(y) -> Ok(JStr(x.s \o y.s))
      [] OTHER -> Err("TypeError")

\* operator.sub
OpSub(x, y) ==
    IF IsNum(x) /\ IsNum(y) THEN AddNumbers(x, y, -1) ELSE Err("TypeError")

\* operator.mul
OpMul(x, y) ==
    CASE IsNum(x) /\ IsNum(y) ->
            LET kind == JoinKind(x, y)
            IN IF kind \in {"int", "float"}
               THEN Ok(Rat(kind, x.n * y.n, x.d * y.d))
               ELSE Ok(Inexact(kind))
      [] IsStr(x) /\ IsNum(y) /\ y.k = "int" -> Ok(JStr(Repeat(x.s, y.n)))
      [] IsNum(x) /\ x.k = "int" /\ IsStr(y) -> Ok(JStr(Repeat(y.s, x.n)))
      [] OTHER -> Err("TypeError")

\* A division that truncates towards minus infinity, as // does.
OpFloorDivide(x, y) ==
    CASE ~(IsNum(x) /\ IsNum(y)) -> Err("TypeError")
      [] IsZero(y) -> Err("ZeroDivisionError")
      [] IsExact(x) /\ IsExact(y) -> Ok(Rat("float", FloorDiv(x.n * y.d, x.d * y.n), 1))
      [] OTHER -> Ok(Inexact(JoinKind(x, y)))

\* operator.truediv
OpDiv(x, y) ==
    CASE ~(IsNum(x) /\ IsNum(y)) -> Err("TypeError")
      [] IsZero(y) -> Err("ZeroDivisionError")
      [] IsExact(x) /\ IsExact(y) -> Ok(Rat("float", x.n * y.d, x.d * y.n))
      [] OTHER -> Ok(Inexact(JoinKind(x, y)))

\* operator.mod: the remainder takes the sign of the divisor; a str on the left
\* is printf-style formatting, which fails for a format without directives.
OpMod(x, y) ==
    CASE ~(IsNum(x) /\ IsNum(y)) -> Err("TypeError")
      [] JoinKind(x, y) = "cplx" -> Err("TypeError")
      [] IsZero(y) -> Err("ZeroDivisionError")
      [] IsExact(x) /\ IsExact(y) ->
            LET q == FloorDiv(x.n * y.d, x.d * y.n)
            IN Ok(Rat(JoinKind(x, y), x.n * y.d - q * y.n * x.d, x.d * y.d))
      [] OTHER -> Ok(JIrr)

\* operator.pow
OpPow(x, y) ==
    CASE ~(IsNum(x) /\ IsNum(y)) -> Err("TypeError")
      [] JoinKind(x, y) = "cplx" -> Ok(JCplx)
      [] JoinKind(x, y) = "irr" -> Ok(JIrr)
      [] y.d = 1 /\ y.n >= 0 ->
            Ok(Rat(JoinKind(x, y), IntPow(x.n, y.n), IntPow(x.d, y.n)))
      [] y.d = 1 /\ y.n < 0 ->
            IF IsZero(x) THEN Err("ZeroDivisionError")
            ELSE Ok(Rat("float", IntPow(x.d, -y.n), IntPow(x.n, -y.n)))
      [] IsZero(x) ->
            IF y.n < 0 THEN Err("ZeroDivisionError") ELSE Ok(JFloat(0, 1))
      [] x.n = 1 /\ x.d = 1 -> Ok(JFloat(1, 1))
      [] x.n < 0 -> Ok(JCplx)
      [] OTHER -> Ok(JIrr)

\* operator.neg
OpNeg(x) ==
    CASE ~IsNum(x) -> Err("TypeError")
      [] IsExact(x) -> Ok(PyVal("num", <<>>, FALSE, x.k, -x.hi, -x.n, x.d))
      [] OTHER -> Ok(x)

\* operator.pos
OpPos(x) == IF IsNum(x) THEN Ok(x) ELSE Err("TypeError")

\* ------------------------------------------------------------ ast.parse
\* An expression is a sequence of tokens.
\* The literals the expressions are enumerated over, and all those that occur.
Digits == {"0", "1", "2"}
NumberTokens == Digits \cup {"5"}
StringTokens == {"'s'"}
NameTokens == {"x"}
OperatorTokens == {"+", "-", "*", "/", "**", "%", "//", "~", "(", ")", "."}
Tokens == Digits \cup StringTokens \cup NameTokens \cup OperatorTokens

NumberValue(tok) ==
    CASE tok = "0" -> 0 [] tok = "1" -> 1 [] tok = "2" -> 2 [] tok = "5" -> 5

\* F applied to the value of v: v is evaluated once, as an argument is in Python.
Bind(v, F(_)) == CHOOSE r \in {F(x) : x \in {v}} : TRUE

\* AST nodes.
Constant(value) == [type |-> "Constant", value |-> value]
BinOp(left, op, right) == [type |-> "BinOp", op |-> op, left |-> left, right |-> right]
UnaryOp(op, operand) == [type |-> "UnaryOp", op |-> op, operand |-> operand]
OtherNode(type) == [type |-> type]

\* A parse: the node and the position of the first token not consumed.
Parsed(node, pos) == [ok |-> TRUE, node |-> node, pos |-> pos]
NoParse == [ok |-> FALSE, node |-> OtherNode("None"), pos |-> 0]

At(toks, i) == IF i \in 1..Len(toks) THEN toks[i] ELSE "<end>"

BinOpName(tok) ==
    CASE tok = "+" -> "Add" [] tok = "-" -> "Sub" [] tok = "*" -> "Mult"
      [] tok = "/" -> "Div" [] tok = "//" -> "FloorDiv" [] tok = "%" -> "Mod"
      [] tok = "**" -> "Pow"

UnaryOpName(tok) ==
    CASE tok = "+" -> "UAdd" [] tok = "-" -> "USub" [] tok = "~" -> "Invert"

RECURSIVE ParseSum(_, _), SumTail(_, _, _), ParseTerm(_, _), TermTail(_, _, _)
RECURSIVE ParseFactor(_, _), ParsePower(_, _), ParsePrimary(_, _)
RECURSIVE Trailers(_, _, _), ParseAtom(_, _), Strings(_, _, _)

\* STRING+: adjacent string literals are one constant.
Strings(toks, acc, i) ==
    IF At(toks, i) \in StringTokens
    THEN Strings(toks, acc \o <<"s">>, i + 1)
    ELSE Parsed(Constant(JStr(acc)), i)

\* ... ')' after a parenthesised expression.
CloseGroup(toks, inner) ==
    Bind(inner, LAMBDA p : IF p.ok /\ At(toks, p.pos) = ")"
                           THEN Parsed(p.node, p.pos + 1)
                           ELSE NoParse)

\* atom: NUMBER | STRING+ | NAME | '(' ')' | '(' sum ')'
ParseAtom(toks, i) ==
    CASE At(toks, i) \in NumberTokens ->
            Parsed(Constant(JInt(NumberValue(At(toks, i)))), i + 1)
      [] At(toks, i) \in StringTokens -> Strings(toks, <<>>, i)
      [] At(toks, i) \in NameTokens -> Parsed(OtherNode("Name"), i + 1)
      [] At(toks, i) = "(" /\ At(toks, i + 1) = ")" -> Parsed(OtherNode("Tuple"), i + 2)
      [] At(toks, i) = "(" /\ At(toks, i + 1) # ")" ->
            CloseGroup(toks, ParseSum(toks, i + 1))
      [] OTHER -> NoParse

\* ... ')' after the argument of a call.
CloseCall(toks, arg) ==
    Bind(arg, LAMBDA p : IF p.ok /\ At(toks, p.pos) = ")"
                         THEN Trailers(toks, OtherNode("Call"), p.pos + 1)
                         ELSE NoParse)

\* primary: primary '.' NAME | primary '(' [sum] ')' | atom
Trailers(toks, left, i) ==
    CASE At(toks, i) = "." /\ At(toks, i + 1) \in NameTokens ->
            Trailers(toks, OtherNode("Attribute"), i + 2)
      [] At(toks, i) = "." /\ At(toks, i + 1) \notin NameTokens -> NoParse
      [] At(toks, i) = "(" /\ At(toks, i + 1) = ")" ->
            Trailers(toks, OtherNode("Call"), i + 2)
      [] At(toks, i) = "(" /\ At(toks, i + 1) # ")" ->
            CloseCall(toks, ParseSum(toks, i + 1))
      [] OTHER -> Parsed(left, i)

AfterAtom(toks, atom) ==
    Bind(atom, LAMBDA p : IF p.ok THEN Trailers(toks, p.node, p.pos) ELSE NoParse)

ParsePrimary(toks, i) == AfterAtom(toks, ParseAtom(toks, i))

Exponent(base, exponent) ==
    Bind(exponent, LAMBDA p : IF p.ok
                              THEN Parsed(BinOp(base.node, "Pow", p.node), p.pos)
                              ELSE NoParse)

\* power: primary ['**' factor]
AfterPrimary(toks, base) ==
    Bind(base, LAMBDA p : CASE ~p.ok -> NoParse
                            [] p.ok /\ At(toks, p.pos) = "**" ->
                                  Exponent(p, ParseFactor(toks, p.pos + 1))
                            [] OTHER -> p)

ParsePower(toks, i) == AfterPrimary(toks, ParsePrimary(toks, i))

Signed(tok, operand) ==
    Bind(operand, LAMBDA p : IF p.ok
                             THEN Parsed(UnaryOp(UnaryOpName(tok), p.node), p.pos)
                             ELSE NoParse)

\* factor: ('+' | '-' | '~') factor | power
ParseFactor(toks, i) ==
    IF At(toks, i) \in {"+", "-", "~"}
    THEN Signed(At(toks, i), ParseFactor(toks, i + 1))
    ELSE ParsePower(toks, i)

TermRight(toks, left, tok, right) ==
    Bind(right, LAMBDA p : IF p.ok
                           THEN TermTail(toks, BinOp(left, BinOpName(tok), p.node), p.pos)
                           ELSE NoParse)

\* term: term ('*' | '/' | '//' | '%') factor | factor
TermTail(toks, left, i) ==
    IF At(toks, i) \in {"*", "/", "//", "%"}
    THEN TermRight(toks, left, At(toks, i), ParseFactor(toks, i + 1))
    ELSE Parsed(left, i)

AfterFactor(toks, first) ==
    Bind(first, LAMBDA p : IF p.ok THEN TermTail(toks, p.node, p.pos) ELSE NoParse)

ParseTerm(toks, i) == AfterFactor(toks, ParseFactor(toks, i))

SumRight(toks, left, tok, right) ==
    Bind(right, LAMBDA p : IF p.ok
                           THEN SumTail(toks, BinOp(left, BinOpName(tok), p.node), p.pos)
                           ELSE NoParse)

\* sum: sum ('+' | '-') term | term
SumTail(toks, left, i) ==
    IF At(toks, i) \in {"+", "-"}
    THEN SumRight(toks, left, At(toks, i), ParseTerm(toks, i + 1))
    ELSE Parsed(left, i)

AfterTerm(toks, first) ==
    Bind(first, LAMBDA p : IF p.ok THEN SumTail(toks, p.node, p.pos) ELSE NoParse)

ParseSum(toks, i) == AfterTerm(toks, ParseTerm(toks, i))

Parsing(ok, e, node) == [ok |-> ok, exc |-> e, node |-> node]

WholeExpression(toks, whole) ==
    Bind(whole, LAMBDA p : IF p.ok /\ p.pos = Len(toks) + 1
                           THEN Parsing(TRUE, "", p.node)
                           ELSE Parsing(FALSE, "SyntaxError", OtherNode("None")))

\* ast.parse(expression, mode='eval'): the body of the tree, or an exception. A
\* source that is not a str is a TypeError; one that is not a whole expression a
\* SyntaxError.
AstParse(expression) ==
    IF expression.t # "str" THEN Parsing(FALSE, "TypeError", OtherNode("None"))
    ELSE WholeExpression(expression.s, ParseSum(expression.s, 1))

\* ------------------------------------------------------------ eval_expr
\* The keys of `ops`.
ops == {"Add", "Sub", "Mult", "Div", "Pow", "Mod", "USub", "UAdd"}

ApplyBinary(op, x, y) ==
    CASE op = "Add" -> OpAdd(x, y)
      [] op = "Sub" -> OpSub(x, y)
      [] op = "Mult" -> OpMul(x, y)
      [] op = "Div" -> OpDiv(x, y)
      [] op = "Pow" -> OpPow(x, y)
      [] op = "Mod" -> OpMod(x, y)

ApplyUnary(op, x) ==
    CASE op = "USub" -> OpNeg(x)
      [] op = "UAdd" -> OpPos(x)

RECURSIVE eval_expr(_)

\* ops[type(node.op)](left, right), once both operands are evaluated.
EvalBinary(op, left, right) ==
    Bind(<<left, right>>,
         LAMBDA p : CASE ~p[1].ok -> p[1]
                      [] p[1].ok /\ ~p[2].ok -> p[2]
                      [] OTHER -> ApplyBinary(op, p[1].v, p[2].v))

EvalUnary(op, operand) ==
    Bind(operand, LAMBDA p : IF p.ok THEN ApplyUnary(op, p.v) ELSE p)

eval_expr(node) ==
    Bind(node,
         LAMBDA n : CASE n.type = "Constant" -> Ok(n.value)
                      [] n.type = "BinOp" /\ n.op \notin ops -> Err("KeyError")
                      [] n.type = "BinOp" /\ n.op \in ops ->
                            EvalBinary(n.op, eval_expr(n.left), eval_expr(n.right))
                      [] n.type = "UnaryOp" /\ n.op \notin ops -> Err("KeyError")
                      [] n.type = "UnaryOp" /\ n.op \in ops ->
                            EvalUnary(n.op, eval_expr(n.operand))
                      [] OTHER -> Err("TypeError"))

\* ------------------------------------------------------------ MCPServer
MCPTool(name, properties, required) ==
    [name |-> name, properties |-> properties, required |-> required]

\* MCPTool.to_dict
to_dict(tool) ==
    [name |-> tool.name,
     inputSchema |-> [type |-> "object", properties |-> tool.properties,
                      required |-> tool.required]]

\* MCPServer.__init__: the registry, in registration order.
RegisteredTools ==
    << MCPTool("echo", {"text"}, <<"text">>),
       MCPTool("add_numbers", {"a", "b"}, <<"a", "b">>),
       MCPTool("get_time", {}, <<>>),
       MCPTool("reverse_string", {"text"}, <<"text">>),
       MCPTool("server_info", {}, <<>>),
       MCPTool("calculate", {"expression"}, <<"expression">>),
       MCPTool("generate_uuid", {}, <<>>) >>

\* tool_name == "<name>": a str with these characters.
NameIs(tool_name, name) == tool_name.t = "str" /\ tool_name.s = <<name>>

\* arguments.get(key, default) raises AttributeError unless arguments is a dict.
IsDict(v) == v.shape.t = "dict"

RECURSIVE Reverse(_)
Reverse(s) == IF s = <<>> THEN <<>> ELSE Reverse(Tail(s)) \o <<Head(s)>>

handle_tools_list(request_id, registry) ==
    Success(request_id, [tools |-> [i \in 1..Len(registry) |-> to_dict(registry[i])]])

handle_initialize(request_id, params) ==
    Success(request_id,
            [protocolVersion |-> "2024-11-05",
             capabilities |-> [tools |-> [listChanged |-> TRUE]],
             serverInfo |-> [name |-> "MCP Test Server", version |-> "1.0.0"]])

\* The echo branch; the caller's `except Exception` sees what it raises.
ToolEcho(request_id, arguments) ==
    IF ~IsDict(arguments) THEN Raise("AttributeError")
    ELSE LET text == DictGet(arguments.text, JStr(<<>>))
         IN Return(Success(request_id, TextContent(FStr(<<"Echo: ">> \o Render(text)))))

\* sum_result = a + b and the result text; the branch's `except Exception`
\* catches what the addition raises.
AddNumbersSum(request_id, a, b, sum_result) ==
    IF sum_result.ok
    THEN Return(Success(request_id, TextContent(
             FStr(<<"The sum of ">> \o Render(a) \o <<" and ">> \o Render(b)
                  \o <<" is ">> \o Render(sum_result.v)))))
    ELSE Return(ErrorResponse(request_id, InternalError,
             FStr(<<"Internal error in add_numbers: ", sum_result.exc>>)))

\* The two validations of a and b.
AddNumbersChecked(request_id, a, b) ==
    CASE a.t = "null" \/ b.t = "null" ->
            Return(ErrorResponse(request_id, InvalidParams,
                FStr(<<"Invalid params: Both 'a' and 'b' parameters are required">>)))
      [] a.t # "null" /\ b.t # "null" /\ (a.t # "num" \/ b.t # "num") ->
            Return(ErrorResponse(request_id, InvalidParams,
                FStr(<<"Invalid params: Both parameters must be numbers. Got a=",
                       TypeName(a), "(">> \o Render(a) \o <<"), b=", TypeName(b), "(">>
                     \o Render(b) \o <<")">>)))
      [] OTHER -> AddNumbersSum(request_id, a, b, OpAdd(a, b))

\* The add_numbers branch, with its own `except Exception`.
ToolAddNumbers(request_id, arguments) ==
    IF ~IsDict(arguments)
    THEN Return(ErrorResponse(request_id, InternalError,
                FStr(<<"Internal error in add_numbers: ", "AttributeError">>)))
    ELSE AddNumbersChecked(request_id, DictGet(arguments.a, JNull),
                           DictGet(arguments.b, JNull))

ToolGetTime(request_id, now) ==
    Return(Success(request_id, TextContent(FStr(<<"Current server time: ", now>>))))

\* text[::-1]: a str or a list can be sliced, nothing else.
ToolReverseString(request_id, arguments) ==
    IF ~IsDict(arguments) THEN Raise("AttributeError")
    ELSE LET text == DictGet(arguments.text, JStr(<<>>))
         IN CASE text.t = "str" ->
                   Return(Success(request_id, TextContent(
                       FStr(<<"Reversed: ">> \o Reverse(text.s)))))
              [] text.t = "list" ->
                   Return(Success(request_id, TextContent(
                       FStr(<<"Reversed: ">> \o Render(text)))))
              [] OTHER -> Raise("TypeError")

ToolServerInfo(request_id, registry, started, now, pid) ==
    LET uptime == IF started.set THEN <<now, " - ", started.at, " seconds">> ELSE <<>>
    IN Return(Success(request_id, TextContent(
           FStr(<<"MCP Test Server Info:", "- Version: 1.0.0", "- Protocol: 2024-11-05",
                  "- Tools: ", ToString(Len(registry)), "- Uptime: ">> \o uptime
                \o <<"- PID: ", pid, "- Python: ", "3">>))))

\* The calculate branch, with its own `except Exception` around parse,
\* evaluation and the formatting of the result.
Evaluate(tree) == Bind(tree, LAMBDA p : IF p.ok THEN eval_expr(p.node) ELSE Err(p.exc))

\* A calculate branch whose `except` answers with InternalError.
CalculateResponseInternal(request_id, expression, calc_result) ==
    Bind(calc_result,
         LAMBDA p :
            IF p.ok
            THEN Return(Success(request_id, TextContent(
                     FStr(<<"Expression: ">> \o Render(expression) \o <<"\nResult: ">>
                          \o Render(p.v)))))
            ELSE Return(ErrorResponse(request_id, InternalError,
                     FStr(<<"Invalid expression '">> \o Render(expression)
                          \o <<"': ", p.exc>>))))

CalculateResponse(request_id, expression, calc_result) ==
    Bind(calc_result,
         LAMBDA p :
            IF p.ok
            THEN Return(Success(request_id, TextContent(
                     FStr(<<"Expression: ">> \o Render(expression) \o <<"\nResult: ">>
                          \o Render(p.v)))))
            ELSE Return(ErrorResponse(request_id, InvalidParams,
                     FStr(<<"Invalid expression '">> \o Render(expression)
                          \o <<"': ", p.exc>>))))

ToolCalculate(request_id, arguments) ==
    IF ~IsDict(arguments) THEN Raise("AttributeError")
    ELSE CalculateResponse(request_id, DictGet(arguments.expression, JStr(<<>>)),
                           Evaluate(AstParse(DictGet(arguments.expression, JStr(<<>>)))))

ToolGenerateUuid(request_id, new_uuid) ==
    Return(Success(request_id, TextContent(FStr(<<"Generated UUID: ", new_uuid>>))))

\* An else branch that answers with InvalidParams.
UnknownToolInvalidParams(request_id, tool_name) ==
    Return(ErrorResponse(request_id, InvalidParams,
                         FStr(<<"Unknown tool: ">> \o Render(tool_name))))

UnknownTool(request_id, tool_name) ==
    Return(ErrorResponse(request_id, MethodNotFound,
                         FStr(<<"Unknown tool: ">> \o Render(tool_name))))

\* The if / elif chain on tool_name.
ToolBranch(request_id, tool_name, arguments, registry, started, env) ==
    CASE NameIs(tool_name, "echo") -> ToolEcho(request_id, arguments)
      [] NameIs(tool_name, "add_numbers") -> ToolAddNumbers(request_id, arguments)
      [] NameIs(tool_name, "get_time") -> ToolGetTime(request_id, env.now)
      [] NameIs(tool_name, "reverse_string") -> ToolReverseString(request_id, arguments)
      [] NameIs(tool_name, "server_info") ->
            ToolServerInfo(request_id, registry, started, env.now, env.pid)
      [] NameIs(tool_name, "calculate") -> ToolCalculate(request_id, arguments)
      [] NameIs(tool_name, "generate_uuid") -> ToolGenerateUuid(request_id, env.uuid)
      [] OTHER -> UnknownTool(request_id, tool_name)

\* The empty dict that params.get("arguments", {}) defaults to.
EmptyArguments ==
    [shape |-> JDict, text |-> JAbsent, a |-> JAbsent, b |-> JAbsent,
     expression |-> JAbsent]

\* The outer `except Exception` of handle_tools_call (lines 295-303).
OuterTry(request_id, branch) ==
    Bind(branch,
         LAMBDA p : IF p.raised
                    THEN Return(ErrorResponse(request_id, InternalError,
                                    FStr(<<"Internal error: ", p.exc>>)))
                    ELSE p)

\* MCPServer.handle_tools_call. params.get is outside the try: it raises to the
\* caller when params is not a dict. Inside the try, whatever a branch raises
\* becomes an InternalError envelope.
handle_tools_call(request_id, params, registry, started, env) ==
    IF params.shape.t # "dict" THEN Raise("AttributeError")
    ELSE OuterTry(request_id,
                  ToolBranch(request_id, DictGet(params.name, JNull),
                             IF params.arguments.shape.t = "absent"
                             THEN EmptyArguments ELSE params.arguments,
                             registry, started, env))

\* ------------------------------------------------------------ request bodies
Arguments(shape, text, a, b, expression) ==
    [shape |-> shape, text |-> text, a |-> a, b |-> b, expression |-> expression]

\* A value of `arguments` (or the key's absence) that is not a dict.
NotADict(shape) == Arguments(shape, JAbsent, JAbsent, JAbsent, JAbsent)

Params(shape, name, arguments) ==
    [shape |-> shape, name |-> name, arguments |-> arguments]

NoParams(shape) == Params(shape, JAbsent, NotADict(JAbsent))

\* What json.loads(post_data.decode('utf-8')) gives: raw is "garbage" when the
\* read or the decoding raises, else the JSON type of the document.
Body(raw, method, id, params) ==
    [raw |-> raw, method |-> method, id |-> id, params |-> params]

NotAnObject(raw) == Body(raw, JAbsent, JAbsent, NoParams(JAbsent))

Ids == {JAbsent, JNull, JStr(<<"1">>), JInt(1), JInt(0)}

Methods ==
    {JAbsent, JNull, JInt(5), JStr(<<"tools/list">>), JStr(<<"tools/call">>),
     JStr(<<"initialize">>), JStr(<<"resources/list">>)}

NonDictShapes == {JNull, JList, JStr(<<"p">>), JInt(3), JBool(TRUE)}

ToolNames ==
    {"echo", "add_numbers", "get_time", "reverse_string", "server_info",
     "calculate", "generate_uuid"}

Names ==
    {JStr(<<n>>) : n \in ToolNames}
    \cup {JAbsent, JNull, JInt(7), JList, JStr(<<"unknown_tool">>), JStr(<<"Echo">>)}

Vals ==
    {JAbsent, JNull, JBool(TRUE), JBool(FALSE), JInt(0), JInt(5), JInt(-10),
     JFloat(5, 2), JFloat(-3, 2), JBigInt(1, 0), JStr(<<>>), JStr(<<"5">>),
     JStr(<<"a", "b", "c">>), JList, JDict}

\* Sequences of tokens of at most n tokens.
RECURSIVE TokenSeqs(_)
TokenSeqs(n) ==
    IF n = 0 THEN {<<>>}
    ELSE LET shorter == TokenSeqs(n - 1)
         IN shorter \cup {Append(e, tok) : e \in {x \in shorter : Len(x) = n - 1}, tok \in Tokens}

BinaryTokens == {"+", "-", "*", "/", "**", "%", "//"}
SignTokens == {"+", "-"}

\* Longer expressions: two operators over three numbers, bare and with either
\* pair in parentheses, and signed operands.
PatternExpressions ==
    {<<x, o1, y, o2, z>> : x \in Digits, y \in Digits, z \in Digits,
                           o1 \in BinaryTokens, o2 \in BinaryTokens}
    \cup {<<"(", x, o1, y, ")", o2, z>> :
             x \in Digits, y \in Digits, z \in Digits,
             o1 \in BinaryTokens, o2 \in BinaryTokens}
    \cup {<<x, o1, "(", y, o2, z, ")">> :
             x \in Digits, y \in Digits, z \in Digits,
             o1 \in BinaryTokens, o2 \in BinaryTokens}
    \cup {<<s1, x, o1, y>> : s1 \in SignTokens, x \in Digits, y \in Digits,
                             o1 \in BinaryTokens}
    \cup {<<s1, x, o1, s2, y>> : s1 \in SignTokens, s2 \in SignTokens,
                                 x \in Digits, y \in Digits,
                                 o1 \in BinaryTokens}
    \cup {<<x, o1, s1, y, o2, z>> :
             x \in Digits, y \in Digits, z \in Digits,
             o1 \in BinaryTokens, o2 \in BinaryTokens, s1 \in SignTokens}
    \cup {<<"'s'", "*", x>> : x \in Digits}
    \cup {<<"x", "(", "'s'", ")">>, <<"x", ".", "x", "(", ")">>, <<"'s'", "+", "'s'">>}

Expressions == TokenSeqs(MaxExprLen) \cup PatternExpressions

\* tools/call bodies: every name with the generic shapes of `arguments`, and each
\* tool that reads arguments with the values of what it reads.
GenericArguments ==
    {NotADict(shape) : shape \in NonDictShapes \cup {JAbsent}}
    \cup {EmptyArguments, Arguments(JDict, JStr(<<"a", "b", "c">>), JInt(5), JAbsent, JInt(5))}

ToolCalls ==
    {Params(JDict, name, arguments) : name \in Names, arguments \in GenericArguments}
    \cup {Params(JDict, JStr(<<name>>), Arguments(JDict, text, JAbsent, JAbsent, JAbsent)) :
             name \in {"echo", "reverse_string"}, text \in Vals}
    \cup {Params(JDict, JStr(<<"add_numbers">>), Arguments(JDict, JAbsent, a, b, JAbsent)) :
             a \in Vals, b \in Vals}
    \cup {Params(JDict, JStr(<<"calculate">>),
                 Arguments(JDict, JAbsent, JAbsent, JAbsent, expression)) :
             expression \in (Vals \ {JStr(<<"a", "b", "c">>)})
                            \cup {JStr(<<"x">>), JStr(<<"2", "+", "1", "*", "2">>),
                                  JStr(<<"-", "2", "**", "2">>),
                                  JStr(<<"1", "/", "0">>), JStr(<<"'s'">>)}}

EnvelopeBodies ==
    {NotAnObject(raw) : raw \in {"garbage", "list", "str", "num", "null"}}
    \cup {Body("object", method, id, params) :
             method \in Methods, id \in Ids,
             params \in {NoParams(shape) : shape \in NonDictShapes \cup {JAbsent}}
                        \cup {Params(JDict, JAbsent, NotADict(JAbsent)),
                              Params(JDict, JStr(<<"echo">>), EmptyArguments)}}
    \cup {Body("object", JStr(<<"tools/call">>), id, params) :
             id \in Ids, params \in ToolCalls}

CalculateBodies ==
    {Body("object", JStr(<<"tools/call">>), JInt(1),
          Params(JDict, JStr(<<"calculate">>),
                 Arguments(JDict, JAbsent, JAbsent, JAbsent, JStr(e)))) :
        e \in Expressions}

Bodies == EnvelopeBodies \cup CalculateBodies

\* The clock, uuid.uuid4() and os.getpid(), as the handlers read them.
Environments == [now : {"t1", "t2"}, uuid : {"u1", "u2"}, pid : {"pid"}]

\* ------------------------------------------------------------ do_POST
NoResponse == [jsonrpc |-> "none"]

\* A routing that reads a member of params before it looks at the method.
RouteMethodParamsFirst(method, request_id, params, registry, started, env) ==
    CASE params.shape.t # "dict" -> Raise("AttributeError")
      [] params.shape.t = "dict" /\ NameIs(method, "tools/list") ->
            Return(handle_tools_list(request_id, registry))
      [] params.shape.t = "dict" /\ NameIs(method, "tools/call") ->
            handle_tools_call(request_id, params, registry, started, env)
      [] params.shape.t = "dict" /\ NameIs(method, "initialize") ->
            Return(handle_initialize(request_id, params))
      [] OTHER ->
            Return(ErrorResponse(request_id, MethodNotFound,
                       FStr(<<"Method not found: ">> \o Render(method))))

\* Lines 351-365: the if / elif chain on method.
RouteMethod(method, request_id, params, registry, started, env) ==
    CASE NameIs(method, "tools/list") ->
            Return(handle_tools_list(request_id, registry))
      [] NameIs(method, "tools/call") ->
            handle_tools_call(request_id, params, registry, started, env)
      [] NameIs(method, "initialize") ->
            Return(handle_initialize(request_id, params))
      [] OTHER ->
            Return(ErrorResponse(request_id, MethodNotFound,
                       FStr(<<"Method not found: ">> \o Render(method))))

\* The empty dict that request_data.get('params', {}) defaults to.
EmptyParams == Params(JDict, JAbsent, NotADict(JAbsent))

\* Lines 346-365: read the envelope and route it. request_data.get raises
\* AttributeError when the document is not an object.
Dispatch(request_data, registry, started, env) ==
    IF request_data.raw # "object" THEN Raise("AttributeError")
    ELSE RouteMethod(DictGet(request_data.method, JNull),
                     DictGet(request_data.id, JNull),
                     IF request_data.params.shape.t = "absent"
                     THEN EmptyParams ELSE request_data.params,
                     registry, started, env)

\* An except block that reports the failure under a code of its own.
error_response_unlisted(e) ==
    ErrorResponse(JNull, 0 - ParseError, FStr(<<"Parse error: ", e>>))

\* The error envelope of the `except Exception` block.
error_response(e) ==
    ErrorResponse(JNull, ParseError, FStr(<<"Parse error: ", e>>))

\* self.process = None (watch_server.py line 19); a child is named by its index.
None == 0

\* One MCPRequestHandler per request in flight: the locals of its do_POST.
MaxCallers == 2

Callers == 1..MaxCallers

IdleHandler ==
    [pc |-> "idle", body |-> NotAnObject("garbage"), response |-> NoResponse,
     wfile |-> <<>>, caught |-> ""]

Init ==
    /\ pc = "idle"
    /\ body = NotAnObject("garbage")
    /\ response = NoResponse
    /\ wfile = <<>>
    /\ caught = ""
    /\ attempts = 0
    /\ tools = RegisteredTools
    /\ start_time = [set |-> TRUE, at |-> "t0"]
    /\ callers = [c \in Callers |-> IdleHandler]
    /\ main_pc = "setup"
    /\ observer_pc = "unstarted"
    /\ process = None
    /\ children = <<>>
    /\ stopped = FALSE

\* A POST arrives: the status line and headers are sent (lines 331-336).
Receive(bodies) ==
    /\ pc = "idle"
    /\ \E b \in bodies : body' = b
    /\ pc' = "read"
    /\ response' = NoResponse
    /\ wfile' = <<>>
    /\ caught' = ""
    /\ attempts' = 0
    /\ UNCHANGED <<tools, start_time, callers, watch_vars>>

\* Lines 339-341: read Content-Length bytes and decode them.
ReadDecode ==
    /\ pc = "read"
    /\ IF body.raw = "garbage"
       THEN pc' = "except" /\ caught' = "JSONDecodeError"
       ELSE pc' = "route" /\ caught' = caught
    /\ UNCHANGED <<body, response, wfile, attempts, tools, start_time, callers, watch_vars>>

\* The try block goes on to the write, or leaves for the except block.
Routed(out) ==
    IF out.raised
    THEN pc' = "except" /\ caught' = out.exc /\ response' = response
    ELSE pc' = "write" /\ caught' = caught /\ response' = out.resp

\* Lines 346-365.
Route ==
    /\ pc = "route"
    /\ \E env \in Environments :
          \E out \in {Dispatch(body, tools, start_time, env)} : Routed(out)
    /\ attempts' = attempts + 1
    /\ UNCHANGED <<body, wfile, tools, start_time, callers, watch_vars>>

\* Lines 367-370.
WriteResponse ==
    /\ pc = "write"
    /\ wfile' = Append(wfile, response)
    /\ pc' = "done"
    /\ UNCHANGED <<body, response, caught, attempts, tools, start_time, callers, watch_vars>>

\* An except block that swallows the exception and writes nothing.
HandleExceptionSilently ==
    /\ pc = "except"
    /\ pc' = "done"
    /\ UNCHANGED <<body, response, wfile, caught, attempts, tools, start_time, callers, watch_vars>>

\* Lines 372-383.
HandleException ==
    /\ pc = "except"
    /\ wfile' = Append(wfile, error_response(caught))
    /\ pc' = "done"
    /\ UNCHANGED <<body, response, caught, attempts, tools, start_time, callers, watch_vars>>

\* do_POST returns: the exchange is over and its locals are gone.
Finish ==
    /\ pc = "done"
    /\ pc' = "idle"
    /\ body' = NotAnObject("garbage")
    /\ response' = NoResponse
    /\ wfile' = <<>>
    /\ caught' = ""
    /\ attempts' = 0
    /\ UNCHANGED <<tools, start_time, callers, watch_vars>>

ReceiveAny == Receive(Bodies)

ReceiveEnvelope == Receive(EnvelopeBodies)

Next ==
    ReceiveAny \/ ReadDecode \/ Route \/ WriteResponse \/ HandleException \/ Finish

Spec == Init /\ [][Next]_vars

\* The exchanges of the envelope family alone. BaseHTTPRequestHandler runs do_POST
\* to its end on the thread that serves the connection: once a step of the handler
\* is enabled it is taken.
NextEnvelope ==
    ReceiveEnvelope \/ ReadDecode \/ Route \/ WriteResponse \/ HandleException \/ Finish

LiveSpec ==
    /\ Init
    /\ [][NextEnvelope]_vars
    /\ WF_vars(ReadDecode)
    /\ WF_vars(Route)
    /\ WF_vars(WriteResponse)
    /\ WF_vars(HandleException)

\* ------------------------------------------------------------ several callers
\* Requests that several callers send to one MCPServer at the same time.
CallOfTool(name, arguments) ==
    Body("object", JStr(<<"tools/call">>), JInt(1), Params(JDict, JStr(<<name>>), arguments))

ConcurrentBodies ==
    {NotAnObject("garbage"),
     Body("object", JStr(<<"initialize">>), JInt(1), NoParams(JAbsent)),
     Body("object", JStr(<<"tools/list">>), JInt(1), NoParams(JAbsent)),
     Body("object", JStr(<<"tools/call">>), JInt(1), NoParams(JList)),
     CallOfTool("echo", Arguments(JDict, JStr(<<"a", "b", "c">>), JAbsent, JAbsent, JAbsent)),
     CallOfTool("reverse_string", Arguments(JDict, JStr(<<"a", "b", "c">>), JAbsent, JAbsent, JAbsent)),
     CallOfTool("reverse_string", Arguments(JDict, JInt(5), JAbsent, JAbsent, JAbsent)),
     CallOfTool("add_numbers", Arguments(JDict, JAbsent, JInt(5), JInt(-10), JAbsent)),
     CallOfTool("calculate", Arguments(JDict, JAbsent, JAbsent, JAbsent,
                                       JStr(<<"2", "+", "1", "*", "2">>))),
     CallOfTool("server_info", EmptyArguments)}

\* A POST arrives at caller c (lines 331-336).
CallerReceive(c) ==
    /\ callers[c].pc = "idle"
    /\ \E b \in ConcurrentBodies :
          callers' = [callers EXCEPT ![c] = [IdleHandler EXCEPT !.pc = "read", !.body = b]]
    /\ UNCHANGED <<pc, body, response, wfile, caught, attempts, tools, start_time, watch_vars>>

\* Lines 339-341 in caller c.
CallerReadDecode(c) ==
    /\ callers[c].pc = "read"
    /\ callers' = [callers EXCEPT ![c] =
                      IF callers[c].body.raw = "garbage"
                      THEN [@ EXCEPT !.pc = "except", !.caught = "JSONDecodeError"]
                      ELSE [@ EXCEPT !.pc = "route"]]
    /\ UNCHANGED <<pc, body, response, wfile, caught, attempts, tools, start_time, watch_vars>>

\* What the try block leaves in the handler's locals.
CallerRouted(h, out) ==
    IF out.raised
    THEN [h EXCEPT !.pc = "except", !.caught = out.exc]
    ELSE [h EXCEPT !.pc = "write", !.response = out.resp]

\* A routing that takes the called tool's entry out of the shared registry.
CallerRouteConsuming(c) ==
    /\ callers[c].pc = "route"
    /\ \E env \in Environments :
          \E out \in {Dispatch(callers[c].body, tools, start_time, env)} :
              callers' = [callers EXCEPT ![c] = CallerRouted(@, out)]
    /\ tools' = IF Len(tools) = 7 THEN SubSeq(tools, 1, 6) ELSE tools
    /\ UNCHANGED <<pc, body, response, wfile, caught, attempts, start_time, watch_vars>>

\* Lines 346-365 in caller c: the handlers read self.tools and self.start_time
\* of the one MCPServer and assign neither.
CallerRoute(c) ==
    /\ callers[c].pc = "route"
    /\ \E env \in Environments :
          \E out \in {Dispatch(callers[c].body, tools, start_time, env)} :
              callers' = [callers EXCEPT ![c] = CallerRouted(@, out)]
    /\ UNCHANGED <<pc, body, response, wfile, caught, attempts, tools, start_time, watch_vars>>

\* Lines 367-370 in caller c.
CallerWriteResponse(c) ==
    /\ callers[c].pc = "write"
    /\ callers' = [callers EXCEPT ![c] =
                      [@ EXCEPT !.pc = "done", !.wfile = Append(@, callers[c].response)]]
    /\ UNCHANGED <<pc, body, response, wfile, caught, attempts, tools, start_time, watch_vars>>

\* Lines 372-383 in caller c.
CallerHandleException(c) ==
    /\ callers[c].pc = "except"
    /\ callers' = [callers EXCEPT ![c] =
                      [@ EXCEPT !.pc = "done",
                                !.wfile = Append(@, error_response(callers[c].caught))]]
    /\ UNCHANGED <<pc, body, response, wfile, caught, attempts, tools, start_time, watch_vars>>

\* A return that registers the first tool once more.
CallerFinishRegistering(c) ==
    /\ callers[c].pc = "done"
    /\ callers' = [callers EXCEPT ![c] = IdleHandler]
    /\ tools' = IF Len(tools) = 7 THEN Append(tools, tools[1]) ELSE tools
    /\ UNCHANGED <<pc, body, response, wfile, caught, attempts, start_time, watch_vars>>

\* do_POST of caller c returns.
CallerFinish(c) ==
    /\ callers[c].pc = "done"
    /\ callers' = [callers EXCEPT ![c] = IdleHandler]
    /\ UNCHANGED <<pc, body, response, wfile, caught, attempts, tools, start_time, watch_vars>>

ReceiveConcurrently == \E c \in Callers : CallerReceive(c)
ReadDecodeConcurrently == \E c \in Callers : CallerReadDecode(c)
RouteConcurrently == \E c \in Callers : CallerRoute(c)
WriteResponseConcurrently == \E c \in Callers : CallerWriteResponse(c)
HandleExceptionConcurrently == \E c \in Callers : CallerHandleException(c)
FinishConcurrently == \E c \in Callers : CallerFinish(c)

\* Any interleaving of the callers' steps.
NextConcurrent ==
    \/ ReceiveConcurrently
    \/ ReadDecodeConcurrently
    \/ RouteConcurrently
    \/ WriteResponseConcurrently
    \/ HandleExceptionConcurrently
    \/ FinishConcurrently

ConcurrentSpec == Init /\ [][NextConcurrent]_vars

\* ------------------------------------------------------------ watch_server.py
\* How many server children one run of the watcher starts.
MaxChildren == 3

\* A child is "running", "signalled" (SIGTERM sent), "killed" (SIGKILL sent) or
\* "exited".
Exited(p) == children[p] = "exited"

\* Popen.terminate(): SIGTERM to a child that has not exited, nothing otherwise.
Terminate(p) ==
    [children EXCEPT ![p] = IF @ = "running" THEN "signalled" ELSE @]

\* Popen.kill(): SIGKILL.
Kill(p) ==
    [children EXCEPT ![p] = IF @ = "exited" THEN @ ELSE "killed"]

\* subprocess.Popen(...) and the assignment to self.process (lines 45-47).
Popen ==
    /\ children' = Append(children, "running")
    /\ process' = Len(children) + 1

\* main, lines 71-76: ServerRestartHandler(server_script) runs restart_server
\* with process None on the main thread, then the observer thread is started.
Setup ==
    /\ main_pc = "setup"
    /\ Popen
    /\ main_pc' = "sleep"
    /\ observer_pc' = "idle"
    /\ UNCHANGED <<stopped, server_vars>>

\* A child ends: on its own, or on the signal it was sent.
ChildExits ==
    /\ \E p \in 1..Len(children) :
          /\ ~Exited(p)
          /\ children' = [children EXCEPT ![p] = "exited"]
    /\ UNCHANGED <<main_pc, observer_pc, process, stopped, server_vars>>

\* on_modified for a .py file (lines 22-30), dispatched on the observer thread.
OnModified ==
    /\ observer_pc = "idle"
    /\ ~stopped
    /\ Len(children) < MaxChildren
    /\ observer_pc' = "check"
    /\ UNCHANGED <<main_pc, process, children, stopped, server_vars>>

\* restart_server, line 34: if self.process.
RestartCheck ==
    /\ observer_pc = "check"
    /\ observer_pc' = IF process # None THEN "terminate" ELSE "popen"
    /\ UNCHANGED <<main_pc, process, children, stopped, server_vars>>

\* Line 36.
RestartTerminate ==
    /\ observer_pc = "terminate"
    /\ children' = Terminate(process)
    /\ observer_pc' = "wait"
    /\ UNCHANGED <<main_pc, process, stopped, server_vars>>

\* Line 38: wait(timeout=5) returns once the child has exited.
RestartWait ==
    /\ observer_pc = "wait"
    /\ Exited(process)
    /\ observer_pc' = "popen"
    /\ UNCHANGED <<main_pc, process, children, stopped, server_vars>>

\* Lines 39-40: the wait times out and the child is killed.
RestartTimeoutKill ==
    /\ observer_pc = "wait"
    /\ ~Exited(process)
    /\ children' = Kill(process)
    /\ observer_pc' = "wait_killed"
    /\ UNCHANGED <<main_pc, process, stopped, server_vars>>

\* Line 41.
RestartWaitKilled ==
    /\ observer_pc = "wait_killed"
    /\ Exited(process)
    /\ observer_pc' = "popen"
    /\ UNCHANGED <<main_pc, process, children, stopped, server_vars>>

\* Lines 44-61: the new child is started and restart_server returns.
RestartPopen ==
    /\ observer_pc = "popen"
    /\ Popen
    /\ observer_pc' = "idle"
    /\ UNCHANGED <<main_pc, stopped, server_vars>>

\* The observer thread leaves its loop once stop() has been called and no
\* handler is running.
ObserverExit ==
    /\ observer_pc = "idle"
    /\ stopped
    /\ observer_pc' = "exited"
    /\ UNCHANGED <<main_pc, process, children, stopped, server_vars>>

\* Ctrl+C while main sleeps (lines 77-80).
KeyboardInterrupt ==
    /\ main_pc = "sleep"
    /\ main_pc' = "stop"
    /\ UNCHANGED <<observer_pc, process, children, stopped, server_vars>>

\* Line 81: observer.stop().
MainStop ==
    /\ main_pc = "stop"
    /\ stopped' = TRUE
    /\ main_pc' = "check"
    /\ UNCHANGED <<observer_pc, process, children, server_vars>>

\* Line 82: if event_handler.process.
MainCheck ==
    /\ main_pc = "check"
    /\ main_pc' = IF process # None THEN "terminate" ELSE "join"
    /\ UNCHANGED <<observer_pc, process, children, stopped, server_vars>>

\* Line 83: event_handler.process is read again and terminated.
MainTerminate ==
    /\ main_pc = "terminate"
    /\ children' = Terminate(process)
    /\ main_pc' = "wait"
    /\ UNCHANGED <<observer_pc, process, stopped, server_vars>>

\* Line 84: event_handler.process is read again and waited for, without timeout.
MainWait ==
    /\ main_pc = "wait"
    /\ Exited(process)
    /\ main_pc' = "join"
    /\ UNCHANGED <<observer_pc, process, children, stopped, server_vars>>

\* Lines 86-87: observer.join() returns when the observer thread has ended.
MainJoin ==
    /\ main_pc = "join"
    /\ observer_pc = "exited"
    /\ main_pc' = "stopped"
    /\ UNCHANGED <<observer_pc, process, children, stopped, server_vars>>

NextWatch ==
    \/ Setup
    \/ ChildExits
    \/ OnModified
    \/ RestartCheck
    \/ RestartTerminate
    \/ RestartWait
    \/ RestartTimeoutKill
    \/ RestartWaitKilled
    \/ RestartPopen
    \/ ObserverExit
    \/ KeyboardInterrupt
    \/ MainStop
    \/ MainCheck
    \/ MainTerminate
    \/ MainWait
    \/ MainJoin

WatchSpec == Init /\ [][NextWatch]_vars

\* ============================================================ properties
\* The envelope written for the exchange, once there is one.
Written == wfile[1]
Answered == pc = "done" /\ Len(wfile) >= 1

IsResult(r) == "result" \in DOMAIN r
IsError(r) == "error" \in DOMAIN r

WellFormed(r) ==
    /\ DOMAIN r \in {{"jsonrpc", "id", "result"}, {"jsonrpc", "id", "error"}}
    /\ r.jsonrpc = "2.0"
    /\ IsError(r) =>
          /\ DOMAIN r.error = {"code", "message"}
          /\ r.error.code \in Int
          /\ r.error.message.t = "str"

\* The request as do_POST reads it.
Decoded == body.raw = "object"
RequestId == DictGet(body.id, JNull)
Method == DictGet(body.method, JNull)
IsToolsCall == Decoded /\ NameIs(Method, "tools/call")
\* tools/call with params a mapping: the tool name and arguments can be read.
CallParams == IF body.params.shape.t = "absent" THEN EmptyParams ELSE body.params
ReadableCall == IsToolsCall /\ CallParams.shape.t = "dict"
ToolName == DictGet(CallParams.name, JNull)
CallArguments ==
    IF CallParams.arguments.shape.t = "absent" THEN EmptyArguments
    ELSE CallParams.arguments
CallOf(name) == ReadableCall /\ NameIs(ToolName, name)
\* ... with arguments a mapping (or absent, which defaults to the empty mapping)
MappedCallOf(name) == CallOf(name) /\ IsDict(CallArguments)

\* C1: every envelope written for a POST exchange, for any method, any params
\* and for an undecodable body, has jsonrpc "2.0", an id and exactly one of
\* result and error; an error has an integer code and a string message.
C1_EnvelopeShape == \A i \in 1..Len(wfile) : WellFormed(wfile[i])

\* C1 witness: an undecodable body has been answered with an error envelope.
C1_Witness == Answered /\ body.raw = "garbage" /\ IsError(Written)

\* C2: whenever the body decodes to a request object, the response's id is the
\* request's id (same value and type), and null when the request has none.
C2_IdEchoed == (Answered /\ Decoded) => Written.id = RequestId

\* ------------------------------------------------------------ the grammar
\* The arithmetic the claims speak of, on exact rationals: def is FALSE for a
\* value that does not exist (a division by zero), ex is FALSE for one that is
\* not a rational (a fractional power).
MVal(n, d) ==
    [def |-> TRUE, ex |-> TRUE,
     n |-> (IF d < 0 THEN -1 ELSE 1) * (n \div Gcd(Abs(n), Abs(d))),
     d |-> Abs(d) \div Gcd(Abs(n), Abs(d))]
MUndefined == [def |-> FALSE, ex |-> FALSE, n |-> 0, d |-> 1]
MInexact == [def |-> TRUE, ex |-> FALSE, n |-> 0, d |-> 1]

MBoth(x, y) == x.def /\ y.def /\ x.ex /\ y.ex
MLost(x, y) == IF x.def /\ y.def THEN MInexact ELSE MUndefined

MSum(x, y) == IF MBoth(x, y) THEN MVal(x.n * y.d + y.n * x.d, x.d * y.d) ELSE MLost(x, y)
MDifference(x, y) ==
    IF MBoth(x, y) THEN MVal(x.n * y.d - y.n * x.d, x.d * y.d) ELSE MLost(x, y)
MProduct(x, y) == IF MBoth(x, y) THEN MVal(x.n * y.n, x.d * y.d) ELSE MLost(x, y)
MQuotient(x, y) ==
    CASE ~(x.def /\ y.def) -> MUndefined
      [] y.ex /\ y.n = 0 -> MUndefined
      [] x.ex /\ y.ex -> MVal(x.n * y.d, x.d * y.n)
      [] OTHER -> MInexact
\* The remainder with the sign of the divisor: x - y * floor(x / y).
MRemainder(x, y) ==
    CASE ~(x.def /\ y.def) -> MUndefined
      [] y.ex /\ y.n = 0 -> MUndefined
      [] x.ex /\ y.ex ->
            MVal(x.n * y.d - FloorDiv(x.n * y.d, x.d * y.n) * y.n * x.d, x.d * y.d)
      [] OTHER -> MInexact
MPower(x, y) ==
    CASE ~(x.def /\ y.def) -> MUndefined
      [] ~(x.ex /\ y.ex) -> MInexact
      [] y.d = 1 /\ y.n >= 0 -> MVal(IntPow(x.n, y.n), IntPow(x.d, y.n))
      [] y.d = 1 /\ y.n < 0 ->
            IF x.n = 0 THEN MUndefined ELSE MVal(IntPow(x.d, -y.n), IntPow(x.n, -y.n))
      [] x.n = 0 -> IF y.n < 0 THEN MUndefined ELSE MVal(0, 1)
      [] x.n = 1 /\ x.d = 1 -> MVal(1, 1)
      [] OTHER -> MInexact
MSigned(sign, x) ==
    IF sign = "-" /\ x.def /\ x.ex THEN MVal(-x.n, x.d) ELSE x

MBinary(tok, x, y) ==
    CASE tok = "+" -> MSum(x, y)
      [] tok = "-" -> MDifference(x, y)
      [] tok = "*" -> MProduct(x, y)
      [] tok = "/" -> MQuotient(x, y)
      [] tok = "%" -> MRemainder(x, y)

\* The value the grammar
\*   expr := term (('+'|'-') term)*      term := factor (('*'|'/'|'%') factor)*
\*   factor := unary ('**' factor)?      unary := ('+'|'-')? atom
\*   atom := number | '(' expr ')'
\* gives a token sequence. With tight, a sign applies to the atom after it, as the
\* grammar is written; without, to the whole power: [sign] (atom ** factor).
GParsed(val, pos) == [ok |-> TRUE, val |-> val, pos |-> pos]
GFail == [ok |-> FALSE, val |-> MUndefined, pos |-> 0]

RECURSIVE GExpr(_, _, _), GExprTail(_, _, _, _), GTerm(_, _, _), GTermTail(_, _, _, _)
RECURSIVE GFactor(_, _, _), GAtom(_, _, _)

GClose(toks, inner) ==
    IF inner.ok /\ At(toks, inner.pos) = ")" THEN GParsed(inner.val, inner.pos + 1)
    ELSE GFail

GAtom(toks, i, tight) ==
    CASE At(toks, i) \in NumberTokens -> GParsed(MVal(NumberValue(At(toks, i)), 1), i + 1)
      [] At(toks, i) = "(" -> GClose(toks, GExpr(toks, i + 1, tight))
      [] OTHER -> GFail

GPowered(sign, base, exponent, tight) ==
    IF exponent.ok
    THEN GParsed(IF tight THEN MPower(MSigned(sign, base), exponent.val)
                 ELSE MSigned(sign, MPower(base, exponent.val)),
                 exponent.pos)
    ELSE GFail

GAfterAtom(toks, sign, atom, tight) ==
    CASE ~atom.ok -> GFail
      [] atom.ok /\ At(toks, atom.pos) = "**" ->
            GPowered(sign, atom.val, GFactor(toks, atom.pos + 1, tight), tight)
      [] OTHER -> GParsed(MSigned(sign, atom.val), atom.pos)

GFactor(toks, i, tight) ==
    IF At(toks, i) \in SignTokens
    THEN GAfterAtom(toks, At(toks, i), GAtom(toks, i + 1, tight), tight)
    ELSE GAfterAtom(toks, "+", GAtom(toks, i, tight), tight)

GTermRight(toks, left, tok, right, tight) ==
    IF right.ok THEN GTermTail(toks, MBinary(tok, left, right.val), right.pos, tight)
    ELSE GFail

GTermTail(toks, left, i, tight) ==
    IF At(toks, i) \in {"*", "/", "%"}
    THEN GTermRight(toks, left, At(toks, i), GFactor(toks, i + 1, tight), tight)
    ELSE GParsed(left, i)

GAfterFactor(toks, first, tight) ==
    IF first.ok THEN GTermTail(toks, first.val, first.pos, tight) ELSE GFail

GTerm(toks, i, tight) == GAfterFactor(toks, GFactor(toks, i, tight), tight)

GExprRight(toks, left, tok, right, tight) ==
    IF right.ok THEN GExprTail(toks, MBinary(tok, left, right.val), right.pos, tight)
    ELSE GFail

GExprTail(toks, left, i, tight) ==
    IF At(toks, i) \in {"+", "-"}
    THEN GExprRight(toks, left, At(toks, i), GTerm(toks, i + 1, tight), tight)
    ELSE GParsed(left, i)

GAfterTerm(toks, first, tight) ==
    IF first.ok THEN GExprTail(toks, first.val, first.pos, tight) ELSE GFail

GExpr(toks, i, tight) == GAfterTerm(toks, GTerm(toks, i, tight), tight)

GWhole(toks, whole) ==
    IF whole.ok /\ whole.pos = Len(toks) + 1 THEN whole ELSE GFail

\* ok: toks is an expression of the grammar; val: its value.
GrammarValue(toks, tight) == GWhole(toks, GExpr(toks, 1, tight))

\* The ways a value is printed: an integer with or without a trailing ".0".
Printings(v) ==
    CASE ~v.def -> {}
      [] v.def /\ ~v.ex -> {<<"<float>">>, <<"<complex>">>}
      [] v.def /\ v.ex /\ v.d = 1 -> {<<ToString(v.n)>>, <<ToString(v.n), ".0">>}
      [] OTHER -> {<<ToString(v.n), "/", ToString(v.d)>>}

Contains(text, part) ==
    \E i \in 1..(Len(text) - Len(part) + 1) : SubSeq(text, i, i + Len(part) - 1) = part

EndsWith(text, part) ==
    /\ Len(text) >= Len(part)
    /\ SubSeq(text, Len(text) - Len(part) + 1, Len(text)) = part

\* ------------------------------------------------------------ the tools
\* A result whose content is a non-empty sequence of {type: "text", text: str}.
HasTextContent(r) ==
    /\ IsResult(r)
    /\ DOMAIN r.result = {"content"}
    /\ Len(r.result.content) >= 1
    /\ \A i \in 1..Len(r.result.content) :
          /\ DOMAIN r.result.content[i] = {"type", "text"}
          /\ r.result.content[i].type = "text"
          /\ r.result.content[i].text.t = "str"

ResultText == Written.result.content[1].text.s
ErrorCode == Written.error.code

\* The arguments each tool's inputSchema and description ask for.
SatisfiesContract(name, arguments) ==
    CASE name \in {"echo", "reverse_string"} ->
            IsDict(arguments) /\ arguments.text.t = "str"
      [] name = "add_numbers" ->
            IsDict(arguments) /\ arguments.a.t = "num" /\ arguments.b.t = "num"
      [] name = "calculate" ->
            /\ IsDict(arguments)
            /\ arguments.expression.t = "str"
            /\ GrammarValue(arguments.expression.s, TRUE).ok
            /\ GrammarValue(arguments.expression.s, TRUE).val.def
      [] OTHER -> TRUE

\* C3: a call of a registered tool with arguments that satisfy the tool's contract
\* is answered with a result whose content is a non-empty sequence of text items,
\* never with an error; get_time, generate_uuid and server_info for any arguments.
C3_ContractCallsSucceed ==
    \A name \in ToolNames :
        (Answered /\ CallOf(name) /\ SatisfiesContract(name, CallArguments))
            => HasTextContent(Written)

\* C3 witness: two numbers, one an integer beyond the range of a double and one
\* a float, have been sent to add_numbers and the call has been answered.
C3_Witness ==
    /\ Answered /\ MappedCallOf("add_numbers")
    /\ CallArguments.a = JBigInt(1, 0) /\ CallArguments.b = JFloat(5, 2)
    /\ IsError(Written) /\ ErrorCode = InternalError

\* The sum a + b of two JSON numbers, printed.
SumPrintings(a, b) ==
    IF a.hi = 0 /\ b.hi = 0
    THEN Printings(MSum(MVal(a.n, a.d), MVal(b.n, b.d)))
    ELSE {<<ToString(a.hi + b.hi), "e400+">>
          \o p : p \in Printings(MSum(MVal(a.n, a.d), MVal(b.n, b.d)))}

BothNumbers(arguments) == arguments.a.t = "num" /\ arguments.b.t = "num"

\* C4: add_numbers (with arguments a mapping) returns a result exactly when a and b
\* are both present, non-null, numeric and not booleans, and the text then contains
\* the sum a + b; in every other case it returns error -32602 and no result.
C4_SumOrInvalidParams ==
    (Answered /\ MappedCallOf("add_numbers")) =>
        IF BothNumbers(CallArguments)
        THEN /\ HasTextContent(Written)
             /\ \E p \in SumPrintings(CallArguments.a, CallArguments.b) :
                   Contains(ResultText, p)
        ELSE IsError(Written) /\ ErrorCode = InvalidParams

\* C4 witness: add_numbers has answered two numbers with -32603.
C4_Witness ==
    /\ Answered /\ MappedCallOf("add_numbers") /\ BothNumbers(CallArguments)
    /\ IsError(Written) /\ ErrorCode = InternalError
    /\ CallArguments.a = JFloat(-3, 2)

\* An expression with a token from outside the arithmetic grammar: an identifier,
\* a string literal, an attribute access, or an operator other than + - * / ** %.
OutsideGrammar(toks) ==
    \E i \in 1..Len(toks) : toks[i] \in NameTokens \cup StringTokens \cup {"//", "~", "."}

CalculateExpression == DictGet(CallArguments.expression, JStr(<<>>))

\* C5: calculate rejects with an error every expression that contains an
\* identifier, a call, an attribute access, a string literal or an operator
\* outside the grammar; none is evaluated to a result.
C5_OutsideGrammarRejected ==
    (/\ Answered /\ MappedCallOf("calculate")
     /\ CalculateExpression.t = "str"
     /\ OutsideGrammar(CalculateExpression.s))
        => IsError(Written)

\* C5 witness: a string literal has been evaluated and returned as the result.
C5_Witness ==
    /\ Answered /\ MappedCallOf("calculate")
    /\ CalculateExpression = JStr(<<"'s'">>)
    /\ HasTextContent(Written)
    /\ ResultText = <<"Expression: ", "'s'", "\nResult: ", "s">>

\* ------------------------------------------------------------ calculate
\* The answer to a calculate call whose expression the grammar derives and gives a
\* value is a result that prints the expression and that value.
CalculatesGrammarValue(tight) ==
    (/\ Answered /\ MappedCallOf("calculate")
     /\ CalculateExpression.t = "str"
     /\ GrammarValue(CalculateExpression.s, tight).ok
     /\ GrammarValue(CalculateExpression.s, tight).val.def)
        => /\ HasTextContent(Written)
           /\ \E p \in Printings(GrammarValue(CalculateExpression.s, tight).val) :
                 ResultText = <<"Expression: ">> \o CalculateExpression.s
                              \o <<"\nResult: ">> \o p

MustFail(expression) ==
    \/ expression.t # "str"
    \/ expression.s = <<>>
    \/ /\ GrammarValue(expression.s, FALSE).ok
       /\ ~GrammarValue(expression.s, FALSE).val.def
    \/ expression.s[Len(expression.s)] \in BinaryTokens
    \/ \E i \in 1..Len(expression.s) : expression.s[i] \in NameTokens \cup {"//", "~", "."}

\* C7: for a calculate call whose arguments are a mapping, every failure to
\* parse or evaluate `expression` (missing, empty, not a string, malformed, an
\* unsupported operator, a division by zero) is answered by the branch itself with
\* error -32602: never -32603, and no exception leaves the branch.
C7_CalculateFailuresAreInvalidParams ==
    (Answered /\ MappedCallOf("calculate")) =>
        /\ caught = ""
        /\ IsError(Written) => ErrorCode = InvalidParams
        /\ ~IsError(Written) => HasTextContent(Written)
        /\ MustFail(CalculateExpression) => IsError(Written)

\* C7 witness: a division by zero has been answered with -32602.
C7_Witness ==
    /\ Answered /\ MappedCallOf("calculate")
    /\ CalculateExpression = JStr(<<"1", "/", "0">>)
    /\ IsError(Written) /\ ErrorCode = InvalidParams

\* ------------------------------------------------------------ routing
Registered(tool_name) == \E name \in ToolNames : NameIs(tool_name, name)

\* C8: a tools/call (params a mapping) whose name is not a registered tool name,
\* an absent name included, is answered with error -32601 and the message
\* "Unknown tool: <name>", whatever its arguments are.
C8_UnknownToolIsMethodNotFound ==
    (Answered /\ ReadableCall /\ ~Registered(ToolName)) =>
        /\ IsError(Written)
        /\ ErrorCode = MethodNotFound
        /\ Written.error.message.s = <<"Unknown tool: ">> \o Render(ToolName)
        /\ Written.id = RequestId

\* C8 witness: a call without a name, its arguments not a mapping, has been
\* answered with "Unknown tool: None".
C8_Witness ==
    /\ Answered /\ ReadableCall
    /\ CallParams.name = JAbsent /\ CallParams.arguments.shape = JList
    /\ IsError(Written) /\ ErrorCode = MethodNotFound
    /\ Written.error.message.s = <<"Unknown tool: ", "None">>

KnownMethod ==
    \E m \in {"initialize", "tools/list", "tools/call"} : NameIs(Method, m)

\* C9: a decoded request whose method is not initialize, tools/list or tools/call,
\* an absent method included, is answered with error -32601 and the message
\* "Method not found: <method>", whatever the type and contents of params.
C9_UnknownMethodIsMethodNotFound ==
    (Answered /\ Decoded /\ ~KnownMethod) =>
        /\ IsError(Written)
        /\ ErrorCode = MethodNotFound
        /\ Written.error.message.s = <<"Method not found: ">> \o Render(Method)
        /\ Written.id = RequestId

\* C9 witness: a request without a method, its params a list, has been answered
\* with "Method not found: None".
C9_Witness ==
    /\ Answered /\ Decoded
    /\ body.method = JAbsent /\ body.params.shape = JList
    /\ IsError(Written)
    /\ Written.error.message.s = <<"Method not found: ", "None">>

\* ------------------------------------------------------------ the exchange
InExchange == pc \in {"read", "route", "write", "except"}

\* C10: every POST exchange ends with exactly one well-formed envelope written:
\* whatever the body and whatever is raised while decoding, dispatching or
\* running a tool, the exchange reaches its end, nothing is written before the
\* one envelope, none after it, and the dispatch is attempted at most once.
C10_ExactlyOneEnvelope ==
    /\ [](InExchange => Len(wfile) = 0)
    /\ [](pc = "done" => (Len(wfile) = 1 /\ WellFormed(wfile[1])))
    /\ [](attempts <= 1)
    /\ (pc = "read" ~> pc = "done")

\* C10 witness: a decoded request whose dispatch raised has been answered once.
C10_Witness ==
    /\ pc = "done" /\ Decoded /\ caught = "AttributeError"
    /\ attempts = 1 /\ Len(wfile) = 1

\* ------------------------------------------------------------ error codes
\* A tools/call whose params, or whose arguments for a tool that reads them,
\* is not a mapping: the dispatch raises AttributeError.
UnreadableCall ==
    /\ IsToolsCall
    /\ \/ CallParams.shape.t # "dict"
       \/ /\ ~IsDict(CallArguments)
          /\ \E name \in {"echo", "add_numbers", "reverse_string", "calculate"} :
                NameIs(ToolName, name)

\* C11: a request whose body decodes to a request object never receives -32700
\* (that code, with a null id, is for bodies that cannot be decoded), and a
\* tools/call whose params or arguments is not a mapping is reported as -32603
\* with the exception text in the message.
C11_DecodedNeverParseError ==
    (Answered /\ Decoded) =>
        /\ ~(IsError(Written) /\ ErrorCode = ParseError)
        /\ UnreadableCall =>
              /\ IsError(Written) /\ ErrorCode = InternalError
              /\ EndsWith(Written.error.message.s, <<"AttributeError">>)

\* C11 witness: a decoded tools/call whose params is a list has been answered
\* with -32700 and a null id.
C11_Witness ==
    /\ Answered /\ IsToolsCall /\ body.params.shape = JList
    /\ IsError(Written) /\ ErrorCode = ParseError /\ Written.id = JNull

\* ------------------------------------------------------------ text tools
CallText == DictGet(CallArguments.text, JStr(<<>>))

\* The characters of s in reverse order.
Reversed(s) == [i \in 1..Len(s) |-> s[Len(s) + 1 - i]]

\* C12: echo and reverse_string (arguments a mapping) never answer with an error
\* on account of `text`: absent, it is the empty string; supplied with any JSON
\* type, the call returns a result; for a string, echo's result text contains it
\* unchanged and reverse_string's contains its characters in reverse order.
C12_TextNeverRejected ==
    \A name \in {"echo", "reverse_string"} :
        (Answered /\ MappedCallOf(name)) =>
            /\ HasTextContent(Written)
            /\ CallText.t = "str" =>
                  Contains(ResultText,
                           IF name = "echo" THEN CallText.s ELSE Reversed(CallText.s))

\* C12 witness: reverse_string has answered a number with -32603.
C12_Witness ==
    /\ Answered /\ MappedCallOf("reverse_string")
    /\ CallText = JInt(5)
    /\ IsError(Written) /\ ErrorCode = InternalError
    /\ Written.error.message.s = <<"Internal error: ", "TypeError">>

\* C14: every error response, from any path (decode failure, unknown method,
\* unknown tool, argument validation, handler exception), carries a code that is
\* a negative integer and one of -32700, -32601, -32602, -32603.
C14_ErrorCodesFromTaxonomy ==
    \A i \in 1..Len(wfile) :
        IsError(wfile[i]) =>
            /\ wfile[i].error.code \in Int
            /\ wfile[i].error.code < 0
            /\ wfile[i].error.code \in {-32700, -32601, -32602, -32603}

\* C14 witness: an argument-validation error of add_numbers has been written.
C14_Witness ==
    /\ Answered /\ MappedCallOf("add_numbers")
    /\ IsError(Written) /\ Written.error.code = -32602

\* ------------------------------------------------------------ shared state
\* The envelope do_POST writes for body b on a server that handles nothing else.
HandledAlone(b) ==
    IF b.raw = "garbage" THEN error_response("JSONDecodeError")
    ELSE LET out == Dispatch(b, RegisteredTools, [set |-> TRUE, at |-> "t0"],
                             [now |-> "t1", uuid |-> "u1", pid |-> "pid"])
         IN IF out.raised THEN error_response(out.exc) ELSE out.resp

\* initialize, tools/list, or a tools/call of echo, add_numbers, reverse_string
\* or calculate.
StatelessRequest(b) ==
    /\ b.raw = "object"
    /\ \/ \E m \in {"initialize", "tools/list"} : NameIs(DictGet(b.method, JNull), m)
       \/ /\ NameIs(DictGet(b.method, JNull), "tools/call")
          /\ b.params.shape.t = "dict"
          /\ \E name \in {"echo", "add_numbers", "reverse_string", "calculate"} :
                NameIs(DictGet(b.params.name, JNull), name)

CallerAnswered(c) == callers[c].pc = "done" /\ Len(callers[c].wfile) >= 1

\* C15: under any interleaving of requests handled at the same time against one
\* MCPServer, no handler writes the tool list or start_time, and the response to
\* each initialize, tools/list, echo, add_numbers, reverse_string or calculate
\* request is the response that request gets when it is handled alone.
C15_NoSharedWritesSameResponse ==
    /\ [][tools' = tools /\ start_time' = start_time]_vars
    /\ [](\A c \in Callers :
            (CallerAnswered(c) /\ StatelessRequest(callers[c].body)) =>
                /\ Len(callers[c].wfile) = 1
                /\ callers[c].wfile[1] = HandledAlone(callers[c].body))

\* C15 witness: a calculate call has been answered while another caller, which
\* has read its request, is still inside do_POST.
C15_Witness ==
    /\ CallerAnswered(1)
    /\ StatelessRequest(callers[1].body)
    /\ NameIs(DictGet(callers[1].body.params.name, JNull), "calculate")
    /\ HasTextContent(callers[1].wfile[1])
    /\ callers[2].pc = "write"
    /\ StatelessRequest(callers[2].body)

\* ------------------------------------------------------------ registry
Descriptor(name, properties, required) ==
    [name |-> name,
     inputSchema |-> [type |-> "object", properties |-> properties, required |-> required]]

\* The seven descriptors of MCPServer.__init__, in registration order.
SevenDescriptors ==
    << Descriptor("echo", {"text"}, <<"text">>),
       Descriptor("add_numbers", {"a", "b"}, <<"a", "b">>),
       Descriptor("get_time", {}, <<>>),
       Descriptor("reverse_string", {"text"}, <<"text">>),
       Descriptor("server_info", {}, <<>>),
       Descriptor("calculate", {"expression"}, <<"expression">>),
       Descriptor("generate_uuid", {}, <<>>) >>

IsToolsList(b) == b.raw = "object" /\ NameIs(DictGet(b.method, JNull), "tools/list")

Listing(c) == callers[c].wfile[1].result.tools

\* C13: after any sequence of initialize, tools/list and tools/call requests,
\* successful or failing, tools/list returns the same seven tool descriptors in
\* registration order with pairwise distinct names: no request adds, removes,
\* reorders or alters a registry entry.
C13_RegistryImmutable ==
    /\ Len(tools) = 7
    /\ \A i \in 1..7 : to_dict(tools[i]) = SevenDescriptors[i]
    /\ \A c \in Callers :
          (CallerAnswered(c) /\ IsToolsList(callers[c].body)) =>
              /\ IsResult(callers[c].wfile[1])
              /\ Listing(c) = SevenDescriptors
              /\ \A i, j \in 1..Len(Listing(c)) :
                    i # j => Listing(c)[i].name # Listing(c)[j].name

\* C13 witness: tools/list has been answered with the seven descriptors while
\* another caller has been answered a tools/call with an error.
C13_Witness ==
    /\ CallerAnswered(1) /\ IsToolsList(callers[1].body)
    /\ Len(Listing(1)) = 7
    /\ CallerAnswered(2)
    /\ NameIs(DictGet(callers[2].body.method, JNull), "tools/call")
    /\ IsError(callers[2].wfile[1])

\* ------------------------------------------------------------ required fields
\* The fields the listing declares as required for the tool at index i.
RequiredFields(i) ==
    LET schema == to_dict(tools[i]).inputSchema
    IN {schema.required[k] : k \in 1..Len(schema.required)}

Omits(field) == CallArguments[field].t = "absent"

\* C16: for every registered tool and every field in the `required` list of the
\* inputSchema that tools/list returns for it, a tools/call of that tool which
\* omits the field returns error code -32602 rather than a result.
C16_RequiredFieldsEnforced ==
    \A i \in 1..Len(tools) : \A field \in RequiredFields(i) :
        (Answered /\ MappedCallOf(tools[i].name) /\ Omits(field)) =>
            /\ IsError(Written)
            /\ ErrorCode = InvalidParams

\* C16 witness: echo called with no text has been answered with a result.
C16_Witness ==
    /\ Answered /\ MappedCallOf("echo") /\ Omits("text")
    /\ "text" \in RequiredFields(1)
    /\ HasTextContent(Written)
    /\ ResultText = <<"Echo: ">>

\* ------------------------------------------------------------ watcher
Alive == {p \in 1..Len(children) : ~Exited(p)}

\* C17: once shutdown (Ctrl+C in main) has completed, no server child started by
\* ServerRestartHandler is still running, for every interleaving of the shutdown
\* sequence with a restart_server call on the observer thread; and at every
\* moment before shutdown at most one child server process is alive.
C17_NoChildSurvivesShutdown ==
    /\ main_pc = "stopped" => Alive = {}
    /\ main_pc \in {"setup", "sleep"} => Cardinality(Alive) <= 1

\* C17 witness: main has printed "Server stopped." after terminating and waiting
\* for the old child, and the child that restart_server started meanwhile runs.
C17_Witness ==
    /\ main_pc = "stopped"
    /\ observer_pc = "exited"
    /\ Len(children) = 2
    /\ children[1] = "exited"
    /\ children[2] = "running"
    /\ process = 2
====
